---- MODULE Spec2Model ----
(***************************************************************************)
(* The intermediate-value store of dagster's execution plan                *)
(* (core/execution_plan/intermediates_manager.py): StepOutputHandle, the   *)
(* in-memory backend and the filesystem backend.                           *)
(*                                                                         *)
(* Python strings are sequences of one-character strings, so that          *)
(* os.path.join and the resolution of a path by the operating system are   *)
(* computed character by character.  The filesystem is a function from     *)
(* resolved paths (sequences of components) to nodes.                      *)
(***************************************************************************)
EXTENDS Integers, Sequences, FiniteSets, TLC

\* ------------------------------------------------------------------------
\* Bounds of the model
\* ------------------------------------------------------------------------
\* longest step_key / output_name enumerated when handles are constructed
MaxStrLen == 2
\* stored values are the integers 1..MaxVal
MaxVal == 2
\* number of set_value calls that may add something to a store
MaxWrites == 2

Chars == {"a", "/"}
Strs == UNION {[1..n -> Chars] : n \in 0..MaxStrLen}
Values == 1..MaxVal

\* ------------------------------------------------------------------------
\* Results of calls: a returned bool, a returned value, None, or a raised
\* exception (err names its class).
\* ------------------------------------------------------------------------
RetBool(b) == [err |-> "none", bool |-> b, val |-> 0]
RetVal(v) == [err |-> "none", bool |-> FALSE, val |-> v]
RetNone == [err |-> "none", bool |-> FALSE, val |-> 0]
Raise(e) == [err |-> e, bool |-> FALSE, val |-> 0]
Raised(r) == r.err /= "none"

\* ------------------------------------------------------------------------
\* StepOutputHandle
\* ------------------------------------------------------------------------
\* Python objects handed to the constructor: a str or something else.
PyStr(s) == [type |-> "str", chars |-> s]
PyArgs == {PyStr(s) : s \in Strs} \cup {[type |-> "int", chars |-> <<>>]}

Handle(sk, on) == [step_key |-> sk, output_name |-> on]

\* StepOutputHandle.__new__: [ok, handle]; ok = FALSE when check.str_param
\* raised because an argument is not a str.
StepOutputHandle(step_key, output_name) ==
    IF step_key.type = "str" /\ output_name.type = "str"
    THEN [ok |-> TRUE, handle |-> Handle(step_key.chars, output_name.chars)]
    ELSE [ok |-> FALSE, handle |-> Handle(<<>>, <<>>)]

\* every handle the constructor yields
AllHandles ==
    {StepOutputHandle(a, b).handle :
        <<a, b>> \in {ab \in PyArgs \X PyArgs : StepOutputHandle(ab[1], ab[2]).ok}}

\* ------------------------------------------------------------------------
\* Paths
\* ------------------------------------------------------------------------
\* one step of posixpath.join: an absolute component discards what precedes
JoinStep(path, b) ==
    IF b /= <<>> /\ b[1] = "/" THEN b
    ELSE IF path = <<>> \/ path[Len(path)] = "/" THEN path \o b
    ELSE path \o <<"/">> \o b

os_path_join(a, b, c) == JoinStep(JoinStep(a, b), c)

\* '{root}/{step_key}'.format(...)
StepDirName(root, step_key) == root \o <<"/">> \o step_key

\* FileSystemIntermediateManager._create_path_from_handle
create_path_from_handle(root, h) == os_path_join(root, h.step_key, h.output_name)

\* the components of a path name, as the operating system resolves it
RECURSIVE Comps(_, _)
Comps(s, cur) ==
    IF s = <<>> THEN (IF cur = <<>> THEN <<>> ELSE <<cur>>)
    ELSE IF Head(s) = "/"
         THEN (IF cur = <<>> THEN Comps(Tail(s), <<>>)
               ELSE <<cur>> \o Comps(Tail(s), <<>>))
         ELSE Comps(Tail(s), Append(cur, Head(s)))

Resolve(s) == Comps(s, <<>>)
TrailingSlash(s) == s /= <<>> /\ s[Len(s)] = "/"
Front(p) == SubSeq(p, 1, Len(p) - 1)

\* ------------------------------------------------------------------------
\* The filesystem: resolved path -> node.  Every prefix of an existing path
\* exists and is a directory.
\* ------------------------------------------------------------------------
DirNode == [kind |-> "dir", data |-> <<>>]
FileNode(bytes) == [kind |-> "file", data |-> bytes]

os_path_exists(fsys, s) ==
    /\ s /= <<>>
    /\ Resolve(s) \in DOMAIN fsys
    /\ (TrailingSlash(s) => fsys[Resolve(s)].kind = "dir")

os_path_isfile(fsys, s) ==
    os_path_exists(fsys, s) /\ fsys[Resolve(s)].kind = "file"

os_path_isdir(fsys, s) ==
    os_path_exists(fsys, s) /\ fsys[Resolve(s)].kind = "dir"

Prefixes(p) == {SubSeq(p, 1, n) : n \in 0..Len(p)}

\* mkdir_p(newdir): os.makedirs, an already existing directory is no error.
\* A component that exists as a regular file makes it raise; nothing has
\* been created then, since directories are made from the top down.
mkdir_p(fsys, s) ==
    LET p == Resolve(s)
        blocked == \E q \in Prefixes(p) : q \in DOMAIN fsys /\ fsys[q].kind = "file"
        made == [q \in DOMAIN fsys \cup Prefixes(p) |->
                    IF q \in DOMAIN fsys THEN fsys[q] ELSE DirNode]
    IN IF blocked THEN [out |-> Raise("OSError"), fs |-> fsys]
       ELSE [out |-> RetNone, fs |-> made]

\* pickle.dumps of a small int (protocol 2): PROTO 2, BININT1 v, STOP
pickle_dumps(v) == <<128, 2, 75, v, 46>>

\* pickle.load of the bytes of a file; truncated data raise (EOFError or
\* UnpicklingError, one class here)
pickle_load(bytes) ==
    IF /\ Len(bytes) = 5
       /\ bytes[1] = 128 /\ bytes[2] = 2 /\ bytes[3] = 75 /\ bytes[5] = 46
    THEN RetVal(bytes[4])
    ELSE Raise("UnpicklingError")

\* open(path, 'wb'): creates or truncates the regular file; [out, fs]
open_wb(fsys, s) ==
    LET p == Resolve(s) IN
    IF s = <<>> \/ TrailingSlash(s) THEN [out |-> Raise("OSError"), fs |-> fsys]
    ELSE IF p \in DOMAIN fsys
         THEN IF fsys[p].kind = "dir" THEN [out |-> Raise("OSError"), fs |-> fsys]
              ELSE [out |-> RetNone, fs |-> [fsys EXCEPT ![p] = FileNode(<<>>)]]
    ELSE IF p = <<>> \/ Front(p) \notin DOMAIN fsys \/ fsys[Front(p)].kind /= "dir"
         THEN [out |-> Raise("OSError"), fs |-> fsys]
    ELSE [out |-> RetNone,
          fs |-> [q \in DOMAIN fsys \cup {p} |->
                     IF q = p THEN FileNode(<<>>) ELSE fsys[q]]]

\* write_pickle_file that opens the file and returns without dumping
write_pickle_file_nodump(fsys, s, value, n) == open_wb(fsys, s)

\* write_pickle_file(path, value).  n is the number of bytes that reach the
\* file before the process is killed or the device fails; n = Len of the
\* pickle when nothing interrupts the write.
write_pickle_file(fsys, s, value, n) ==
    LET o == open_wb(fsys, s)
        bytes == pickle_dumps(value)
    IN IF Raised(o.out) THEN o
       ELSE [out |-> IF n < Len(bytes) THEN Raise("Interrupted") ELSE RetNone,
             fs |-> [o.fs EXCEPT ![Resolve(s)] = FileNode(SubSeq(bytes, 1, n))]]

\* read_pickle_file(path)
read_pickle_file(fsys, s) ==
    IF os_path_isfile(fsys, s) THEN pickle_load(fsys[Resolve(s)].data)
    ELSE Raise("OSError")

\* ------------------------------------------------------------------------
\* InMemoryIntermediatesManager: self.values is a dict handle -> value
\* ------------------------------------------------------------------------
mem_get_value(vals, h) ==
    IF h \in DOMAIN vals THEN RetVal(vals[h]) ELSE Raise("KeyError")

mem_set_value(vals, h, value) ==
    [out |-> RetNone,
     values |-> [k \in DOMAIN vals \cup {h} |-> IF k = h THEN value ELSE vals[k]]]

mem_has_value(vals, h) == RetBool(h \in DOMAIN vals)

\* ------------------------------------------------------------------------
\* FileSystemIntermediateManager
\* ------------------------------------------------------------------------
\* A failed check.invariant raises CheckError.

\* __init__ testing os.path.exists where the code tests os.path.isdir
fs_init_exists(fsys, r) == os_path_exists(fsys, r)

\* __init__(root): TRUE when the instance is constructed
fs_init(fsys, r) == os_path_isdir(fsys, r)

\* has_value that answers False for a path that is not a regular file
fs_has_value_isfile(fsys, r, h) ==
    LET output_path == create_path_from_handle(r, h) IN
    RetBool(os_path_exists(fsys, output_path) /\ os_path_isfile(fsys, output_path))

fs_has_value(fsys, r, h) ==
    LET output_path == create_path_from_handle(r, h) IN
    IF os_path_exists(fsys, output_path)
    THEN IF os_path_isfile(fsys, output_path)
         THEN RetBool(TRUE) ELSE Raise("CheckError")
    ELSE RetBool(FALSE)

fs_get_value(fsys, r, h) ==
    LET hv == fs_has_value(fsys, r, h)
        output_path == create_path_from_handle(r, h)
    IN IF Raised(hv) THEN hv
       ELSE IF ~hv.bool THEN Raise("CheckError")
       ELSE IF ~os_path_isfile(fsys, output_path) THEN Raise("CheckError")
       ELSE read_pickle_file(fsys, output_path)

\* set_value; n as in write_pickle_file.  [out, fs]
fs_set_value(fsys, r, h, value, n) ==
    LET hv == fs_has_value(fsys, r, h)
        mk == mkdir_p(fsys, StepDirName(r, h.step_key))
        output_path == create_path_from_handle(r, h)
    IN IF Raised(hv) THEN [out |-> hv, fs |-> fsys]
       ELSE IF hv.bool THEN [out |-> Raise("CheckError"), fs |-> fsys]
       ELSE IF Raised(mk.out) THEN mk
       ELSE IF os_path_exists(mk.fs, output_path)
            THEN [out |-> Raise("CheckError"), fs |-> mk.fs]
       ELSE write_pickle_file(mk.fs, output_path, value, n)

\* ------------------------------------------------------------------------
\* The store as a state machine
\* ------------------------------------------------------------------------
VARIABLES
    backend,   \* "mem" or "fs": the backend this execution uses
    values,    \* InMemoryIntermediatesManager.values
    fs,        \* the filesystem
    root,      \* FileSystemIntermediateManager._root; NoManager before __init__
    written,   \* history: the <<h, v>> of every set_value that returned normally
    cut,       \* history: the handles of the set_value calls cut short in the write
    last,      \* history: the last call, its arguments and its outcome
    pure,      \* the arguments and results of the handle and path functions
    procs,     \* the callers that run set_value step by step, one record each
    locker,    \* dagster_airflow.utils.Locker: the lock file and its users
    logger,    \* the 'airflow.task' logger and the open handler contexts
    session    \* the airflow connection table and the calls made on it

\* the state of the store, and the state of the other components
store == <<backend, values, fs, root, written, cut, last, pure>>
others == <<procs, locker, logger, session>>
vars == <<store, others>>

\* values of the components a specification does not use
NoProcs == <<>>
NoLocker == [os |-> "off"]
NoLogger == [depth |-> 0]
NoSession == [calls |-> 0]

NoManager == <<>>

\* the directories and files the process starts with: /r is an empty
\* directory, /f a regular file, /n does not exist
RootDir == <<"/", "r">>
RootFile == <<"/", "f">>
RootMissing == <<"/", "n">>
Roots == {RootDir, RootFile, RootMissing}

InitFS ==
    [p \in {<<>>, <<<<"r">>>>, <<<<"f">>>>} |->
        IF p = <<<<"f">>>> THEN FileNode(<<>>) ELSE DirNode]

\* the handles the callers of the store use: two outputs of step a, one of
\* step aa, and handles with an empty field or a path separator in a field
CallerHandles ==
    { <<<<"a">>, <<"a">>>>,  <<<<"a">>, <<"a", "a">>>>,  <<<<"a", "a">>, <<"a">>>>,
      <<<<"a", "/">>, <<"a">>>>,  <<<<>>, <<"a">>>>,  <<<<>>, <<>>>>,
      <<<<"a">>, <<>>>> }
Handles == {h \in AllHandles : <<h.step_key, h.output_name>> \in CallerHandles}

NoHandle == Handle(<<>>, <<>>)
PureState(phase, args, h1, h2, p1, p2) ==
    [phase |-> phase, args |-> args, h1 |-> h1, h2 |-> h2, p1 |-> p1, p2 |-> p2]
NoPure == PureState("off", <<>>, NoHandle, NoHandle, <<>>, <<>>)
Call(op, h, v, r, out) == [op |-> op, h |-> h, v |-> v, root |-> r, out |-> out]

Files(fsys) == {p \in DOMAIN fsys : fsys[p].kind = "file"}
StoreSize == Cardinality(DOMAIN values) + Cardinality(Files(fs) \ DOMAIN InitFS)
CanWrite == Cardinality(written) < MaxWrites /\ StoreSize < MaxWrites

Init ==
    /\ backend \in {"mem", "fs"}
    /\ values = <<>>
    /\ fs = InitFS
    /\ root = NoManager
    /\ written = {}
    /\ cut = {}
    /\ last = Call("none", NoHandle, 0, NoManager, RetNone)
    /\ pure = NoPure
    /\ procs = NoProcs /\ locker = NoLocker /\ logger = NoLogger /\ session = NoSession

InMemory_has_value(h) ==
    /\ backend = "mem"
    /\ last' = Call("has_value", h, 0, NoManager, mem_has_value(values, h))
    /\ UNCHANGED <<backend, values, fs, root, written, cut, pure, others>>

InMemory_get_value(h) ==
    /\ backend = "mem"
    /\ last' = Call("get_value", h, 0, NoManager, mem_get_value(values, h))
    /\ UNCHANGED <<backend, values, fs, root, written, cut, pure, others>>

InMemory_set_value(h, v) ==
    /\ backend = "mem"
    /\ CanWrite
    /\ LET r == mem_set_value(values, h, v) IN
        /\ values' = r.values
        /\ last' = Call("set_value", h, v, NoManager, r.out)
        /\ written' = IF Raised(r.out) THEN written ELSE written \cup {<<h, v>>}
    /\ UNCHANGED <<backend, fs, root, cut, pure, others>>

FileSystem_init(r) ==
    /\ backend = "fs"
    /\ root = NoManager
    /\ root' = IF fs_init(fs, r) THEN r ELSE NoManager
    /\ last' = Call("init", NoHandle, 0, r,
                    IF fs_init(fs, r) THEN RetNone ELSE Raise("CheckError"))
    /\ UNCHANGED <<backend, values, fs, written, cut, pure, others>>

FileSystem_has_value(h) ==
    /\ backend = "fs"
    /\ root /= NoManager
    /\ last' = Call("has_value", h, 0, NoManager, fs_has_value(fs, root, h))
    /\ UNCHANGED <<backend, values, fs, root, written, cut, pure, others>>

\* get_value that makes the step directory, as set_value does
FileSystem_get_value_mkdir(h) ==
    /\ backend = "fs"
    /\ root /= NoManager
    /\ last' = Call("get_value", h, 0, NoManager, fs_get_value(fs, root, h))
    /\ fs' = mkdir_p(fs, StepDirName(root, h.step_key)).fs
    /\ UNCHANGED <<backend, values, root, written, cut, pure, others>>

FileSystem_get_value(h) ==
    /\ backend = "fs"
    /\ root /= NoManager
    /\ last' = Call("get_value", h, 0, NoManager, fs_get_value(fs, root, h))
    /\ UNCHANGED <<backend, values, fs, root, written, cut, pure, others>>

FileSystem_set_value(h, v) ==
    /\ backend = "fs"
    /\ root /= NoManager
    /\ CanWrite
    /\ LET r == fs_set_value(fs, root, h, v, Len(pickle_dumps(v))) IN
        /\ fs' = r.fs
        /\ last' = Call("set_value", h, v, NoManager, r.out)
        /\ written' = IF Raised(r.out) THEN written ELSE written \cup {<<h, v>>}
    /\ UNCHANGED <<backend, values, root, cut, pure, others>>

\* set_value cut short inside write_pickle_file after n bytes (the process
\* is killed, or the device fails while the data are flushed)
FileSystem_set_value_interrupted(h, v, n) ==
    /\ backend = "fs"
    /\ root /= NoManager
    /\ CanWrite
    /\ LET r == fs_set_value(fs, root, h, v, n) IN
        /\ r.out = Raise("Interrupted")
        /\ fs' = r.fs
        /\ last' = Call("set_value", h, v, NoManager, r.out)
        /\ cut' = cut \cup {h}
    /\ UNCHANGED <<backend, values, root, written, pure, others>>

Next ==
    \/ \E h \in Handles : InMemory_has_value(h)
    \/ \E h \in Handles : InMemory_get_value(h)
    \/ \E h \in Handles, v \in Values : InMemory_set_value(h, v)
    \/ \E r \in Roots : FileSystem_init(r)
    \/ \E h \in Handles : FileSystem_has_value(h)
    \/ \E h \in Handles : FileSystem_get_value(h)
    \/ \E h \in Handles, v \in Values : FileSystem_set_value(h, v)
    \/ \E h \in Handles, v \in Values :
          \E n \in 0..(Len(pickle_dumps(v)) - 1) :
             FileSystem_set_value_interrupted(h, v, n)

Spec == Init /\ [][Next]_vars

TypeOK ==
    /\ backend \in {"mem", "fs"}
    /\ root \in Roots \cup {NoManager, RootDir \o <<"/">>}
    /\ \A p \in DOMAIN fs : \A q \in Prefixes(p) :
          q \in DOMAIN fs /\ (q /= p => fs[q].kind = "dir")

\* ------------------------------------------------------------------------
\* The interface, on the store of the current state
\* ------------------------------------------------------------------------
HasValueIn(b, vals, fsys, r, h) ==
    IF b = "mem" THEN mem_has_value(vals, h) ELSE fs_has_value(fsys, r, h)
GetValueIn(b, vals, fsys, r, h) ==
    IF b = "mem" THEN mem_get_value(vals, h) ELSE fs_get_value(fsys, r, h)

has_value(h) == HasValueIn(backend, values, fs, root, h)
get_value(h) == GetValueIn(backend, values, fs, root, h)

WrittenHandles == {w[1] : w \in written}
\* no set_value call has stored anything for h, completely or in part
NeverWritten(h) == h \notin WrittenHandles \cup cut
Returned(call) == ~Raised(call.out)

\* the roots of the manager instances, in this or another process, that
\* are constructed on the directory of the manager r
SameRootInstances(fsys, r) ==
    IF r = NoManager THEN {}
    ELSE {r2 \in {r, r \o <<"/">>} : fs_init(fsys, r2)}

\* ------------------------------------------------------------------------
\* The handle constructor and the path derivation applied to drawn arguments
\* ------------------------------------------------------------------------
InitHandle ==
    /\ backend = "fs"
    /\ values = <<>>
    /\ fs = InitFS
    /\ root = NoManager
    /\ written = {}
    /\ cut = {}
    /\ last = Call("none", NoHandle, 0, NoManager, RetNone)
    /\ pure \in {PureState("args", args, NoHandle, NoHandle, <<>>, <<>>) :
                    args \in PyArgs \X PyArgs \X PyArgs \X PyArgs}
    /\ procs = NoProcs /\ locker = NoLocker /\ logger = NoLogger /\ session = NoSession

\* two handles are constructed from the drawn arguments
StepOutputHandle_new ==
    /\ pure.phase = "args"
    /\ LET n1 == StepOutputHandle(pure.args[1], pure.args[2])
           n2 == StepOutputHandle(pure.args[3], pure.args[4])
       IN pure' = IF n1.ok /\ n2.ok
                  THEN [pure EXCEPT !.phase = "handles", !.h1 = n1.handle, !.h2 = n2.handle]
                  ELSE [pure EXCEPT !.phase = "raised"]
    /\ UNCHANGED <<backend, values, fs, root, written, cut, last, others>>

\* their paths under the root of a manager that can be constructed
FileSystem_create_path_from_handle(r) ==
    /\ pure.phase = "handles"
    /\ fs_init(fs, r)
    /\ pure' = [pure EXCEPT !.phase = "paths",
                            !.p1 = create_path_from_handle(r, pure.h1),
                            !.p2 = create_path_from_handle(r, pure.h2)]
    /\ root' = r
    /\ UNCHANGED <<backend, values, fs, written, cut, last, others>>

NextHandle ==
    \/ StepOutputHandle_new
    \/ \E r \in Roots : FileSystem_create_path_from_handle(r)

SpecHandle == InitHandle /\ [][NextHandle]_vars

\* ------------------------------------------------------------------------
\* Two callers run FileSystemIntermediateManager.set_value at the same time.
\* A call is the sequence of its steps: the has_value check, mkdir_p, the
\* os.path.exists check, open(path, 'wb'), and the dump that ends with the
\* file closed.  The manager is constructed on the directory /r.
\* ------------------------------------------------------------------------
Callers == {"p1", "p2"}

Proc(pc, h, v, out) == [pc |-> pc, h |-> h, v |-> v, out |-> out]

InitConc ==
    /\ backend = "fs"
    /\ values = <<>>
    /\ fs = InitFS
    /\ root = RootDir
    /\ written = {}
    /\ cut = {}
    /\ last = Call("none", NoHandle, 0, NoManager, RetNone)
    /\ pure = NoPure
    /\ procs \in [Callers -> {Proc("has_value", h, v, RetNone) : h \in Handles, v \in Values}]
    /\ locker = NoLocker /\ logger = NoLogger /\ session = NoSession

Ends(p, out) == procs' = [procs EXCEPT ![p].pc = "done", ![p].out = out]
Goes(p, pc) == procs' = [procs EXCEPT ![p].pc = pc]
ConcFrame == UNCHANGED <<backend, values, root, written, cut, last, pure, locker, logger, session>>

\* line 100: check.invariant(not self.has_value(step_output_handle))
Conc_has_value(p) ==
    /\ procs[p].pc = "has_value"
    /\ LET hv == fs_has_value(fs, root, procs[p].h) IN
          IF Raised(hv) THEN Ends(p, hv)
          ELSE IF hv.bool THEN Ends(p, Raise("CheckError"))
          ELSE Goes(p, "mkdir_p")
    /\ UNCHANGED fs
    /\ ConcFrame

\* line 102: mkdir_p('{root}/{step_key}')
Conc_mkdir_p(p) ==
    /\ procs[p].pc = "mkdir_p"
    /\ LET mk == mkdir_p(fs, StepDirName(root, procs[p].h.step_key)) IN
          /\ fs' = mk.fs
          /\ IF Raised(mk.out) THEN Ends(p, mk.out) ELSE Goes(p, "exists")
    /\ ConcFrame

\* the second check made after the file has been written
Conc_exists_late(p) ==
    /\ procs[p].pc = "exists"
    /\ LET w == write_pickle_file(fs, create_path_from_handle(root, procs[p].h),
                                  procs[p].v, Len(pickle_dumps(procs[p].v)))
       IN /\ fs' = w.fs
          /\ Ends(p, IF os_path_exists(fs, create_path_from_handle(root, procs[p].h))
                     THEN Raise("CheckError") ELSE w.out)
    /\ ConcFrame

\* lines 104-105: check.invariant(not os.path.exists(output_path))
Conc_exists(p) ==
    /\ procs[p].pc = "exists"
    /\ IF os_path_exists(fs, create_path_from_handle(root, procs[p].h))
       THEN Ends(p, Raise("CheckError")) ELSE Goes(p, "open")
    /\ UNCHANGED fs
    /\ ConcFrame

\* line 37: open(path, 'wb') creates the file or truncates it
Conc_open(p) ==
    /\ procs[p].pc = "open"
    /\ LET o == open_wb(fs, create_path_from_handle(root, procs[p].h)) IN
          /\ fs' = o.fs
          /\ IF Raised(o.out) THEN Ends(p, o.out) ELSE Goes(p, "dump")
    /\ ConcFrame

\* line 38: pickle.dump and the close of the file: the bytes go to the start
\* of the file, over whatever another writer has put there
Conc_dump(p) ==
    /\ procs[p].pc = "dump"
    /\ LET f == Resolve(create_path_from_handle(root, procs[p].h))
           bytes == pickle_dumps(procs[p].v)
           old == fs[f].data
       IN fs' = [fs EXCEPT ![f] = FileNode(bytes \o SubSeq(old, Len(bytes) + 1, Len(old)))]
    /\ Ends(p, RetNone)
    /\ ConcFrame

NextConc ==
    \/ \E p \in Callers : Conc_has_value(p)
    \/ \E p \in Callers : Conc_mkdir_p(p)
    \/ \E p \in Callers : Conc_exists(p)
    \/ \E p \in Callers : Conc_open(p)
    \/ \E p \in Callers : Conc_dump(p)

SpecConc == InitConc /\ [][NextConc]_vars

AllDone == \A p \in Callers : procs[p].pc = "done"

\* ------------------------------------------------------------------------
\* The outputs of one step are stored on the filesystem backend: a manager
\* constructed on /r or on /r/ receives set_value calls for handles of one
\* step_key, with any strings as step_key and output_name, until a call
\* fails or two values are stored.
\* ------------------------------------------------------------------------
InitLoc ==
    /\ backend = "fs"
    /\ values = <<>>
    /\ fs = InitFS
    /\ root \in SameRootInstances(InitFS, RootDir)
    /\ written = {}
    /\ cut = {}
    /\ last \in {Call("none", Handle(sk, <<>>), 0, NoManager, RetNone) : sk \in Strs}
    /\ pure = NoPure
    /\ procs = NoProcs /\ locker = NoLocker /\ logger = NoLogger /\ session = NoSession

Loc_set_value(output_name, v) ==
    /\ Returned(last)
    /\ Cardinality(written) < 2
    /\ FileSystem_set_value(Handle(last.h.step_key, output_name), v)

NextLoc == \E output_name \in Strs, v \in Values : Loc_set_value(output_name, v)

SpecLoc == InitLoc /\ [][NextLoc]_vars

\* the per-step directory root/step_key and the file root/step_key/output_name
StepDir(r, h) == Resolve(r \o <<"/">> \o h.step_key)
FileInStepDir(r, h) == Append(StepDir(r, h), h.output_name)

\* ------------------------------------------------------------------------
\* dagster_airflow.utils.Locker: processes that each run `with Locker(path):`
\* once, all on the same lock_file_path.  os is os.name, which selects the
\* pair portable_lock / portable_unlock.
\* ------------------------------------------------------------------------
LockProcs == {"a", "b", "c"}
Free == "free"

\* msvcrt.locking(fd, LK_LOCK, 1) tries once a second and raises OSError
\* when the tenth attempt finds the byte still locked
LK_LOCK_attempts == 10

InitLocker ==
    /\ backend = "fs"
    /\ values = <<>>
    /\ fs = InitFS
    /\ root = NoManager
    /\ written = {}
    /\ cut = {}
    /\ last = Call("none", NoHandle, 0, NoManager, RetNone)
    /\ pure = NoPure
    /\ procs = NoProcs /\ logger = NoLogger /\ session = NoSession
    /\ locker \in {[os |-> o,
                    pc |-> [p \in LockProcs |-> "start"],
                    fp |-> [p \in LockProcs |-> "None"],
                    tries |-> [p \in LockProcs |-> 0],
                    holder |-> Free] : o \in {"posix", "nt"}}

LockerFrame == UNCHANGED <<store, procs, logger, session>>

\* __enter__, line 143: self.fp = open(f"{lock_file_path}/lockfile.lck", "w+")
Locker_enter_open(p) ==
    /\ locker.pc[p] = "start"
    /\ locker' = [locker EXCEPT !.pc[p] = "lock", !.fp[p] = "open"]
    /\ LockerFrame

\* __enter__, line 144 on posix: fcntl.flock(fd, LOCK_EX) waits until the
\* lock is free and takes it
Locker_enter_flock(p) ==
    /\ locker.os = "posix"
    /\ locker.pc[p] = "lock"
    /\ locker.holder = Free
    /\ locker' = [locker EXCEPT !.pc[p] = "body", !.holder = p]
    /\ LockerFrame

\* __enter__, line 144 on nt: one attempt of msvcrt.locking(fd, LK_LOCK, 1);
\* after the last failed attempt OSError leaves __enter__, so the with
\* statement runs neither the body nor __exit__
Locker_enter_locking(p) ==
    /\ locker.os = "nt"
    /\ locker.pc[p] = "lock"
    /\ locker' =
          IF locker.holder = Free
          THEN [locker EXCEPT !.pc[p] = "body", !.holder = p]
          ELSE IF locker.tries[p] + 1 = LK_LOCK_attempts
               THEN [locker EXCEPT !.pc[p] = "OSError", !.tries[p] = @ + 1]
               ELSE [locker EXCEPT !.tries[p] = @ + 1]
    /\ LockerFrame

\* the body ends, by return or by an exception, and __exit__ runs
\* (lines 146-148): portable_unlock(self.fp), then self.fp.close()
Locker_exit(p, how) ==
    /\ locker.pc[p] = "body"
    /\ locker' = [locker EXCEPT !.pc[p] = how, !.fp[p] = "closed",
                                !.holder = IF @ = p THEN Free ELSE @]
    /\ LockerFrame

NextLocker ==
    \/ \E p \in LockProcs : Locker_enter_open(p)
    \/ \E p \in LockProcs : Locker_enter_flock(p)
    \/ \E p \in LockProcs : Locker_enter_locking(p)
    \/ \E p \in LockProcs, how \in {"returned", "raised"} : Locker_exit(p, how)

SpecLocker == InitLocker /\ [][NextLocker]_vars

InBody == {p \in LockProcs : locker.pc[p] = "body"}

\* ------------------------------------------------------------------------
\* dagster_airflow.utils.replace_airflow_logger_handlers: the handler list
\* of the 'airflow.task' logger and the contexts that are open, innermost
\* last.  A body does not touch the logger except by opening a context.
\* ------------------------------------------------------------------------
MaxPrior == 2       \* handlers the logger can have before any context
MaxDepth == 2       \* contexts open at the same time
MaxContexts == 3    \* contexts opened in one run

LogHandler(kind, id) == [kind |-> kind, id |-> id]
PriorHandlers == {LogHandler("prior", i) : i \in 1..MaxPrior}
PriorLists == UNION {[1..n -> PriorHandlers] : n \in 0..MaxPrior}

LoggerState(handlers, open, made, lastop, entry) ==
    [handlers |-> handlers, open |-> open, made |-> made, lastop |-> lastop, entry |-> entry]

InitLogger ==
    /\ backend = "fs"
    /\ values = <<>>
    /\ fs = InitFS
    /\ root = NoManager
    /\ written = {}
    /\ cut = {}
    /\ last = Call("none", NoHandle, 0, NoManager, RetNone)
    /\ pure = NoPure
    /\ procs = NoProcs /\ locker = NoLocker /\ session = NoSession
    /\ logger \in {LoggerState(l, <<>>, 0, "none", <<>>) : l \in PriorLists}

LoggerFrame == UNCHANGED <<store, procs, locker, session>>

\* entry that saves the handler list after it has been replaced
Logger_enter_savelate ==
    /\ Len(logger.open) < MaxDepth
    /\ logger.made < MaxContexts
    /\ LET handler == LogHandler("stdout", logger.made + 1) IN
          logger' = LoggerState(<<handler>>,
                                Append(logger.open, [prev_airflow_handlers |-> <<handler>>,
                                                     entry |-> logger.handlers]),
                                logger.made + 1, "enter", <<>>)
    /\ LoggerFrame

\* lines 78-85, up to the yield: prev_airflow_handlers = ....handlers;
\* handler = StreamHandler(sys.stdout); root.handlers = [handler].
\* entry is history: the list at the time of entry.
Logger_enter ==
    /\ Len(logger.open) < MaxDepth
    /\ logger.made < MaxContexts
    /\ LET handler == LogHandler("stdout", logger.made + 1) IN
          logger' = LoggerState(<<handler>>,
                                Append(logger.open, [prev_airflow_handlers |-> logger.handlers,
                                                     entry |-> logger.handlers]),
                                logger.made + 1, "enter", <<>>)
    /\ LoggerFrame

\* the body of the innermost context returns or raises, and the finally
\* clause runs (lines 86-88): ....handlers = prev_airflow_handlers
Logger_exit(how) ==
    /\ logger.open /= <<>>
    /\ LET ctx == logger.open[Len(logger.open)] IN
          logger' = LoggerState(ctx.prev_airflow_handlers, Front(logger.open),
                                logger.made, how, ctx.entry)
    /\ LoggerFrame

NextLogger ==
    \/ Logger_enter
    \/ \E how \in {"returned", "raised"} : Logger_exit(how)

SpecLogger == InitLogger /\ [][NextLogger]_vars

\* ------------------------------------------------------------------------
\* dagster_airflow.utils.create_airflow_connections: the rows of airflow's
\* connection table, in the order of their insertion, and the calls made.
\* ------------------------------------------------------------------------
MaxConns == 2       \* connections in the list given to one call

Connection(conn_id, conn_type) == [conn_id |-> conn_id, conn_type |-> conn_type]
Connections == {Connection(i, t) : i \in {"x", "y"}, t \in {"t1", "t2"}}
ConnectionLists == UNION {[1..n -> Connections] : n \in 0..MaxConns}

\* the tables a call can find: empty, filled, and with a conn_id stored twice
InitTables ==
    { <<>>,
      <<Connection("x", "t1")>>,
      <<Connection("y", "t2"), Connection("x", "t2")>>,
      <<Connection("x", "t1"), Connection("x", "t2")>> }

\* session.query(Connection).filter(Connection.conn_id == conn_id).first()
query_first(table, conn_id) == \E i \in 1..Len(table) : table[i].conn_id = conn_id

\* the loop without the query: every connection is added
RECURSIVE create_airflow_connections_noquery(_, _)
create_airflow_connections_noquery(table, connections) ==
    IF connections = <<>> THEN table
    ELSE create_airflow_connections_noquery(Append(table, Head(connections)),
                                           Tail(connections))

\* lines 53-62: the loop over connections; the result is the table
RECURSIVE create_airflow_connections(_, _)
create_airflow_connections(table, connections) ==
    IF connections = <<>> THEN table
    ELSE IF query_first(table, Head(connections).conn_id)
         THEN create_airflow_connections(table, Tail(connections))
         ELSE create_airflow_connections(Append(table, Head(connections)),
                                         Tail(connections))

SessionState(table, before, connections, calls) ==
    [table |-> table, before |-> before, connections |-> connections, calls |-> calls]

InitSession ==
    /\ backend = "fs"
    /\ values = <<>>
    /\ fs = InitFS
    /\ root = NoManager
    /\ written = {}
    /\ cut = {}
    /\ last = Call("none", NoHandle, 0, NoManager, RetNone)
    /\ pure = NoPure
    /\ procs = NoProcs /\ locker = NoLocker /\ logger = NoLogger
    /\ session \in {SessionState(t, t, <<>>, 0) : t \in InitTables}

\* one call; before and connections are history: the table the call found
\* and the list it was given.  Two calls are made at most.
Session_create_airflow_connections(connections) ==
    /\ session.calls < 2
    /\ session' = SessionState(create_airflow_connections(session.table, connections),
                               session.table, connections, session.calls + 1)
    /\ UNCHANGED <<store, procs, locker, logger>>

NextSession == \E connections \in ConnectionLists : Session_create_airflow_connections(connections)

SpecSession == InitSession /\ [][NextSession]_vars

ConnIds(table) == {table[i].conn_id : i \in 1..Len(table)}
NoDuplicate(table) ==
    \A i, j \in 1..Len(table) : table[i].conn_id = table[j].conn_id => i = j

\* ------------------------------------------------------------------------
\* Claims
\* ------------------------------------------------------------------------

\* C1: on both backends, a set_value on a handle that already holds a value
\* fails with a precondition violation (CheckError) and get_value afterwards
\* still returns the value stored before.
C1_SecondSetValueFails ==
    [][(last'.op = "set_value" /\ ~Raised(get_value(last'.h)))
          => /\ last'.out = Raise("CheckError")
             /\ GetValueIn(backend', values', fs', root', last'.h) = get_value(last'.h)]_vars

\* C2: once set_value(h, v) has returned normally, has_value(h) is true and
\* get_value(h) returns v in every later state of the store.
C2_WrittenValuesStable ==
    \A w \in written : has_value(w[1]) = RetBool(TRUE) /\ get_value(w[1]) = RetVal(w[2])

\* C3: right after a set_value(h, v) that returned normally, on either
\* backend, has_value(h) is true and get_value(h) returns v.
C3_RoundTrip ==
    (last.op = "set_value" /\ Returned(last))
        => has_value(last.h) = RetBool(TRUE) /\ get_value(last.h) = RetVal(last.v)

C3_Witness ==
    /\ backend = "fs"
    /\ last.op = "set_value" /\ Returned(last)
    /\ last.h = Handle(<<"a">>, <<"a", "a">>)
    /\ Handle(<<"a">>, <<"a">>) \in WrittenHandles

\* C4: for a handle no set_value has written, has_value returns false and
\* get_value fails with CheckError (KeyError on the in-memory backend), and
\* the call leaves the store as it was.
C4_NeverWritten ==
    [][(last'.op \in {"has_value", "get_value"} /\ NeverWritten(last'.h))
          => /\ last'.op = "has_value" => last'.out = RetBool(FALSE)
             /\ last'.op = "get_value" =>
                   last'.out = Raise(IF backend = "mem" THEN "KeyError" ELSE "CheckError")
             /\ UNCHANGED <<values, fs, root>>]_vars

\* C5: a set_value(h1, v1) that returned normally leaves the outcomes of
\* has_value(h2) and get_value(h2) as they were for every handle h2 /= h1,
\* and a set_value on a handle never written before returns normally.
C5_Independence ==
    [][(last'.op = "set_value" /\ last'.out /= Raise("Interrupted"))
          => /\ Returned(last') =>
                   \A h2 \in Handles \ {last'.h} :
                      /\ HasValueIn(backend', values', fs', root', h2) = has_value(h2)
                      /\ GetValueIn(backend', values', fs', root', h2) = get_value(h2)
             /\ NeverWritten(last'.h) => Returned(last')]_vars

\* C6: has_value returns true or false and never raises, whatever the handle
\* and whatever store operations came before.
C6_HasValueNeverFails ==
    last.op = "has_value" => Returned(last)

\* C7: for a fixed root, two different handles get different paths, and the
\* two path segments below the root are the handle's step_key and output_name.
C7_PathInjective ==
    pure.phase = "paths"
        => /\ pure.h1 /= pure.h2 => pure.p1 /= pure.p2
           /\ Resolve(pure.p1) = Resolve(root) \o <<pure.h1.step_key, pure.h1.output_name>>

\* C8: on the filesystem backend has_value(h) returns true only when the
\* complete value is stored: never for a file a set_value left partly written.
C8_AllOrNothing ==
    (backend = "fs" /\ last.op = "has_value" /\ last.out = RetBool(TRUE))
        => ~Raised(get_value(last.h))

\* C9: FileSystemIntermediateManager(root) raises and yields no instance when
\* root is not an existing directory; otherwise it yields an instance with that
\* root; either way the filesystem is unchanged, and every store operation of
\* the filesystem backend runs on an instance whose root is a directory.
C9_InvalidRootFails ==
    [][/\ last'.op = "init" =>
            /\ fs' = fs
            /\ IF os_path_isdir(fs, last'.root)
               THEN Returned(last') /\ root' = last'.root
               ELSE last'.out = Raise("CheckError") /\ root' = NoManager
       /\ (backend = "fs" /\ last'.op \in {"has_value", "get_value", "set_value"})
            => root /= NoManager /\ os_path_isdir(fs, root)]_vars

C9_Witness ==
    last.op = "init" /\ last.root = RootFile /\ Raised(last.out) /\ root = NoManager

\* C10: StepOutputHandle(step_key, output_name) raises unless both arguments
\* are non-empty strings, so no constructed handle has an empty field.
C10_NonEmptyFields ==
    pure.phase \in {"handles", "raised"} =>
        (pure.phase = "handles" <=>
            \A i \in 1..4 : pure.args[i].type = "str" /\ pure.args[i].chars /= <<>>)

\* C11: two set_value calls on different handles of the filesystem backend,
\* their steps interleaved in any way, both return normally, and afterwards
\* get_value returns each call's value for its handle.
C11_DifferentHandlesDoNotInterfere ==
    (procs /= NoProcs /\ AllDone /\ procs["p1"].h /= procs["p2"].h)
        => \A p \in Callers :
              Returned(procs[p]) /\ get_value(procs[p].h) = RetVal(procs[p].v)

\* C12: after a set_value(h, v) that returned normally, has_value(h) is
\* true and get_value(h) returns v for every caller of the same store: the
\* instance itself on the in-memory backend, every manager instance
\* constructed on the same root on the filesystem backend.
C12_VisibleToEveryInstance ==
    \A w \in written :
       \A r \in (IF backend = "mem" THEN {root} ELSE SameRootInstances(fs, root)) :
          /\ HasValueIn(backend, values, fs, r, w[1]) = RetBool(TRUE)
          /\ GetValueIn(backend, values, fs, r, w[1]) = RetVal(w[2])

\* C13: a set_value(h, v) that returned normally has stored the value in the
\* file named output_name directly inside the directory root/step_key, which
\* exists; two stored handles of one step_key with different output_name
\* occupy two different files.
C13_StoredUnderStepDirectory ==
    /\ (last.op = "set_value" /\ Returned(last)) =>
          /\ os_path_isdir(fs, root \o <<"/">> \o last.h.step_key)
          /\ FileInStepDir(root, last.h) \in Files(fs)
          /\ fs[FileInStepDir(root, last.h)] = FileNode(pickle_dumps(last.v))
    /\ \A w1, w2 \in written :
          (w1[1].step_key = w2[1].step_key /\ w1[1].output_name /= w2[1].output_name)
             => /\ FileInStepDir(root, w1[1]) \in Files(fs)
                /\ FileInStepDir(root, w2[1]) \in Files(fs)
                /\ FileInStepDir(root, w1[1]) /= FileInStepDir(root, w2[1])

\* C14: on the filesystem backend has_value(h) returns true when the path
\* of h is a regular file and false when the path does not exist; when the
\* path exists and is not a regular file, has_value, get_value and set_value
\* all fail with CheckError and the filesystem stays as it was.
C14_NotARegularFile ==
    [][(backend = "fs" /\ last'.op \in {"has_value", "get_value", "set_value"})
          => LET path == create_path_from_handle(root, last'.h)
                 exists == Resolve(path) \in DOMAIN fs
                           /\ (TrailingSlash(path) => fs[Resolve(path)].kind = "dir")
                 isfile == exists /\ fs[Resolve(path)].kind = "file"
             IN /\ last'.op = "has_value" =>
                      /\ (last'.out = RetBool(TRUE)) <=> isfile
                      /\ (last'.out = RetBool(FALSE)) <=> ~exists
                /\ (exists /\ ~isfile) =>
                      /\ last'.out = Raise("CheckError")
                      /\ UNCHANGED <<fs, written, cut>>]_vars

C14_Witness ==
    /\ backend = "fs"
    /\ last.op \in {"get_value", "set_value"}
    /\ last.h = Handle(<<>>, <<"a">>)
    /\ os_path_isdir(fs, create_path_from_handle(root, last.h))
    /\ last.out = Raise("CheckError")

\* C15: a set_value(h, v) of the filesystem backend that fails leaves the
\* outcomes of has_value(h2) and get_value(h2) as they were, for every
\* handle h2 /= h.
C15_FailedWriteLeavesOthers ==
    [][(backend = "fs" /\ last'.op = "set_value" /\ Raised(last'.out))
          => \A h2 \in Handles \ {last'.h} :
                /\ fs_has_value(fs', root', h2) = fs_has_value(fs, root, h2)
                /\ fs_get_value(fs', root', h2) = fs_get_value(fs, root, h2)]_vars

\* C16: a has_value or get_value call, on either backend and whether it
\* returns or raises, leaves the in-memory mapping, the files and the
\* directories exactly as they were.
C16_QueriesArePure ==
    [][last'.op \in {"has_value", "get_value"} => UNCHANGED <<values, fs, root>>]_vars

C16_Witness ==
    /\ backend = "fs"
    /\ last.op = "get_value"
    /\ last.out = RetVal(MaxVal)
    /\ \E h \in Handles : Raised(has_value(h))

C18_LockerExcludesAndAdmits ==
    /\ Cardinality(InBody) <= 1
    /\ \A p \in LockProcs :
          /\ locker.pc[p] = "body" => locker.holder = p
          /\ locker.pc[p] \in {"returned", "raised"} =>
                locker.holder /= p /\ locker.fp[p] = "closed"
          /\ locker.pc[p] \in {"start", "lock", "body", "returned", "raised"}

\* C19: while a body of replace_airflow_logger_handlers runs, the logger has
\* exactly one handler, the stdout handler its context made; right after a
\* context has exited, by return or by exception, the logger has the list
\* of handlers it had when that context was entered; nested contexts too.
C19_HandlersRestored ==
    /\ (logger.lastop = "enter") =>
          logger.handlers = <<LogHandler("stdout", logger.made)>>
    /\ (logger.open /= <<>>) =>
          Len(logger.handlers) = 1 /\ logger.handlers[1].kind = "stdout"
    /\ (logger.lastop \in {"returned", "raised"}) =>
          logger.handlers = logger.entry

C19_Witness ==
    /\ logger.lastop = "raised"
    /\ Len(logger.open) = 1
    /\ Len(logger.open[1].entry) = MaxPrior
    /\ logger.handlers = logger.entry

\* C20: after create_airflow_connections(connections) the rows the call
\* found are all there, unchanged and in place; every added row is a
\* connection of the list whose conn_id no row before it has; every conn_id
\* of the list is stored; a table without a duplicated conn_id is still
\* without one; and the same call made again adds nothing.
C20_NoDuplicateConnId ==
    session.calls > 0 =>
       LET t == session.table
           b == session.before
           l == session.connections
       IN /\ Len(b) <= Len(t) /\ SubSeq(t, 1, Len(b)) = b
          /\ \A i \in (Len(b) + 1)..Len(t) :
                /\ \E k \in 1..Len(l) : l[k] = t[i]
                /\ \A j \in 1..(i - 1) : t[j].conn_id /= t[i].conn_id
          /\ ConnIds(l) \subseteq ConnIds(t)
          /\ NoDuplicate(b) => NoDuplicate(t)
          /\ create_airflow_connections(t, l) = t

C20_Witness ==
    /\ session.calls = 2
    /\ Len(session.connections) = 2
    /\ session.connections[1].conn_id = session.connections[2].conn_id
    /\ session.connections[1].conn_type /= session.connections[2].conn_type
    /\ session.before /= <<>>
    /\ Len(session.table) = Len(session.before) + 1

====
